---- MODULE Spec2Model ----
(***************************************************************************)
(* Streaming recognition + fan-out translation pipeline of                 *)
(* translate_google.py and translate_realtime.py.                          *)
(*                                                                         *)
(* Threads of the program:                                                 *)
(*   - the Tk main thread, which runs the button handlers                  *)
(*     (recognize_and_translate, stop_listening, save_transcript,          *)
(*     toggle_window, close_window) one at a time;                         *)
(*   - the PortAudio callback (audio_callback), which puts frames on q;    *)
(*   - one listen_loop thread per click on Start;                          *)
(*   - one _translate_task thread per finalized non-empty utterance.       *)
(*                                                                         *)
(* Text is abstracted to records: a record [u, k] stands for the string    *)
(* f"{message}\n\n" that update_text appends, u being the number of the    *)
(* utterance (in order of finalization) and k the kind of message.         *)
(* A call into Tk made by a thread other than the main thread is           *)
(* marshalled to the main thread and runs only when that thread is back in *)
(* its event loop; on a destroyed widget it raises TclError in the caller. *)
(***************************************************************************)
EXTENDS Integers, Sequences, FiniteSets, TLC

\* ---- bounds of the model ----
NTargets == 2
MaxSessions == 2
MaxUtterances == 2
MaxFrames == 2
MaxOpens == 2

\* ---- configuration ----
TARGET_LANGS == <<"en", "tl", "id", "th", "vi">>

Targets == SubSeq(TARGET_LANGS, 1, NTargets)

TargetSet == {Targets[i] : i \in 1..NTargets}

Langs == {"zh"} \cup TargetSet

Variants == {"google", "realtime"}

Sessions == 1..MaxSessions

Utterances == 1..MaxUtterances

NoMsg == [u |-> 0, k |-> "none"]

\* no popup window has been created, and none has gone away
NoWindowOp == [opened |-> 0, op |-> "none", lang |-> "zh"]

\* no call of save_transcript under way: nothing built, shown or written
NoTranscript == [content |-> <<>>, box |-> "none", file |-> <<>>]

\* A run is bounded by a budget: the clicks on Start, the finalized
\* utterances, the popup windows created (of any languages), whether Save
\* Transcript is pressed, whether the backend may answer with an empty
\* translation, and whether the audio source goes on after MaxFrames frames.
Budget(starts, finals, opens, saves, blanks, endless) ==
    [starts |-> starts, finals |-> finals, opens |-> opens, saves |-> saves,
     blanks |-> blanks, endless |-> endless]

\* the budgets small enough for progress properties: two sessions, two
\* utterances, a popup window, Save Transcript
LiveBudgets ==
    {Budget(MaxSessions, 1, 0, FALSE, FALSE, FALSE),
     Budget(1, MaxUtterances, 0, FALSE, FALSE, FALSE),
     Budget(1, 1, 1, FALSE, FALSE, FALSE),
     Budget(1, 0, 1, TRUE, FALSE, FALSE)}

\* the same with an audio source that never runs dry, less the second utterance
EndlessBudgets ==
    {Budget(MaxSessions, 1, 0, FALSE, FALSE, TRUE),
     Budget(1, 1, 1, FALSE, FALSE, TRUE),
     Budget(1, 0, 1, TRUE, FALSE, TRUE)}

Budgets ==
    {Budget(MaxSessions, MaxUtterances, 0, FALSE, FALSE, FALSE),
     Budget(MaxSessions, 1, 1, FALSE, FALSE, FALSE),
     Budget(1, 1, MaxOpens, FALSE, FALSE, FALSE),
     Budget(1, 1, 1, TRUE, TRUE, FALSE)}
    \cup LiveBudgets \cup EndlessBudgets

VARIABLES
    variant,       \* which of the two programs runs
    start_btn,     \* state of the Start button
    stop_btn,      \* state of the Stop button
    stop_flag,     \* threading.Event
    q,             \* queue.Queue of captured frames
    captured,      \* number of frames captured so far (frames are numbered)
    fed,           \* history: the numbered frames passed to rec.AcceptWaveform, with the loop that fed each
    nfinal,        \* number of finalized non-empty utterances so far
    loop,          \* the listen_loop threads
    task,          \* the _translate_task threads, one per utterance
    text_buffers,  \* lang -> sequence of records
    open_windows,  \* lang -> whether the dict holds a window for it
    sink,          \* lang -> content of the text widget of the window of lang
    gui,           \* position of the main thread: idle, or inside toggle_window
    budget,        \* what the user, the recognizer, the backend and the audio source do at most in this run
    toplevels,     \* lang -> number of popup windows (tk.Toplevel) of lang that exist
    window_op,     \* history: the popup windows created so far, and how the last one went away since
    transcript     \* the call of save_transcript under way: its content, its message box, the file it wrote

vars == <<variant, start_btn, stop_btn, stop_flag, q, captured, fed,
          nfinal, loop, task, text_buffers, open_windows, sink, gui, budget, toplevels, window_op, transcript>>

\* ---- helpers ----
IsPrefix(s, t) == Len(s) <= Len(t) /\ SubSeq(t, 1, Len(s)) = s

Running(th) == th.pc \notin {"none", "done", "died"}

\* the main thread is in toggle_window or close_window between
\* open_windows[lang_code]["window"].destroy() and del open_windows[lang_code]
Closing(lang) == open_windows[lang] /\ toplevels[lang] = 0

InClose == \E lang \in Langs : Closing(lang)

\* the main thread is in mainloop, with no handler running
MainIdle == gui.state = "idle" /\ ~InClose

\* the main thread is in an event loop (mainloop, or the one a file dialog or
\* a message box runs), where the Tk calls of the other threads and the
\* close buttons of the popup windows are served
EventLoopRuns == gui.state \in {"idle", "saving", "box"} /\ ~InClose

\* the thread is inside the Tk calls of update_text
InTkCalls(th) == th.pc \in {"ut_del", "ut_tk", "ut_see"}

StreamOpen(l) == l.pc \notin {"none", "open", "done", "died"}

InLoop == [pc |-> "none", data |-> 0, msg |-> NoMsg, tmp |-> <<>>,
           win |-> "none", stopped |-> FALSE]

InTask == [pc |-> "none", li |-> 0, msg |-> NoMsg, tmp |-> <<>>, win |-> "none",
           sawStop |-> FALSE]

Init ==
    /\ variant \in Variants
    /\ start_btn = "normal"
    /\ stop_btn = "disabled"
    /\ stop_flag = FALSE
    /\ q = <<>>
    /\ captured = 0
    /\ fed = <<>>
    /\ nfinal = 0
    /\ loop = [i \in Sessions |-> InLoop]
    /\ task = [t \in Utterances |-> InTask]
    /\ text_buffers = [l \in Langs |-> <<>>]
    /\ open_windows = [l \in Langs |-> FALSE]
    /\ sink = [l \in Langs |-> <<>>]
    /\ gui = [state |-> "idle", lang |-> "zh"]
    /\ budget \in Budgets
    /\ toplevels = [l \in Langs |-> 0]
    /\ window_op = NoWindowOp
    /\ transcript = NoTranscript

\* ---- audio capture ----
\* q.put(bytes(indata)), called by the audio library for every block of an
\* open stream. The first MaxFrames frames are numbered; the frames after
\* them are not told apart (frame 0), and the queue holds at most one of them.
audio_callback ==
    /\ \E i \in Sessions : StreamOpen(loop[i])
    /\ IF captured < MaxFrames
       THEN /\ captured' = captured + 1
            /\ q' = Append(q, captured + 1)
       ELSE /\ budget.endless
            /\ q = <<>>
            /\ q' = <<0>>
            /\ UNCHANGED captured
    /\ UNCHANGED <<variant, start_btn, stop_btn, stop_flag, fed, nfinal,
                   loop, task, text_buffers, open_windows, sink, gui, budget, toplevels, window_op, transcript>>

\* ---- Start / Stop buttons ----
recognize_and_translate ==
    /\ MainIdle
    /\ start_btn = "normal"
    /\ \E i \in Sessions :
        /\ i <= budget.starts
        /\ loop[i].pc = "none"
        /\ \A j \in Sessions : j < i => loop[j].pc # "none"
        /\ loop' = [loop EXCEPT ![i].pc = "open"]
    /\ start_btn' = "disabled"
    /\ stop_btn' = "normal"
    /\ stop_flag' = FALSE
    /\ UNCHANGED <<variant, q, captured, fed, nfinal, task, text_buffers,
                   open_windows, sink, gui, budget, toplevels, window_op, transcript>>

\* stop_listening, had it also ended the translation threads
stop_listening_cancels ==
    /\ MainIdle
    /\ stop_btn = "normal"
    /\ stop_flag' = TRUE
    /\ start_btn' = "normal"
    /\ stop_btn' = "disabled"
    /\ loop' = [i \in Sessions |->
                  IF Running(loop[i]) THEN [loop[i] EXCEPT !.stopped = TRUE] ELSE loop[i]]
    /\ task' = [t \in Utterances |->
                  IF Running(task[t]) THEN [task[t] EXCEPT !.pc = "done"] ELSE task[t]]
    /\ UNCHANGED <<variant, q, captured, fed, nfinal, text_buffers,
                   open_windows, sink, gui, budget, toplevels, window_op, transcript>>

stop_listening ==
    /\ MainIdle
    /\ stop_btn = "normal"
    /\ stop_flag' = TRUE
    /\ start_btn' = "normal"
    /\ stop_btn' = "disabled"
    /\ loop' = [i \in Sessions |->
                  IF Running(loop[i]) THEN [loop[i] EXCEPT !.stopped = TRUE] ELSE loop[i]]
    /\ task' = [t \in Utterances |->
                  IF task[t].pc = "req"
                  THEN [task[t] EXCEPT !.sawStop = TRUE]
                  ELSE task[t]]
    /\ UNCHANGED <<variant, q, captured, fed, nfinal, text_buffers,
                   open_windows, sink, gui, budget, toplevels, window_op, transcript>>

\* ---- update_text: text_buffers[lang_code] += f"{message}\n\n", then the window ----
\* The += on the dict entry is a read, a concatenation and a store; no lock
\* guards it, so another thread can run between the read and the store.
update_text_read(th, lang) ==
    [th EXCEPT !.tmp = text_buffers[lang], !.pc = "ut_write"]

\* The record a message leaves in a buffer or a window: the text of the
\* utterance, its translation, an error-marked line ("❌ Error (...)" or
\* "⚠️ ..."), or a partial line ("🕒 ...").
Record(msg) ==
    [u |-> msg.u,
     k |-> IF msg.k \in {"http", "exc", "tcl"} THEN "err" ELSE msg.k]

update_text_store(th) == Append(th.tmp, Record(th.msg))

\* `if lang_code in open_windows: win = open_windows[lang_code]["text"]`
update_text_lookup(th, lang) ==
    IF open_windows[lang]
    THEN [th EXCEPT !.pc = IF th.msg.k = "partial" THEN "ut_del" ELSE "ut_tk",
                    !.win = IF Closing(lang) THEN "dead" ELSE "live"]
    ELSE [th EXCEPT !.pc = "return"]

\* win.delete("end-3l", "end-1l"): the last two lines of the widget, which is
\* the last record shown, whatever it is; nothing on an empty widget.
text_delete_last(content) ==
    IF content = <<>> THEN content ELSE SubSeq(content, 1, Len(content) - 1)

\* win.insert(tk.END, f"{message}\n\n")
text_insert(content, msg) == Append(content, Record(msg))

\* window.destroy(): every thread that holds the widget now holds a dead one
destroy_loops(lang) ==
    [i \in Sessions |->
        IF lang = "zh" /\ InTkCalls(loop[i])
        THEN [loop[i] EXCEPT !.win = "dead"] ELSE loop[i]]

destroy_tasks(lang) ==
    [t \in Utterances |->
        IF InTkCalls(task[t]) /\ Targets[task[t].li] = lang
        THEN [task[t] EXCEPT !.win = "dead"] ELSE task[t]]

\* ---- translation ----
\* threading.Thread(target=_translate_task, args=(text,)).start(): the thread
\* starts with the first language of TARGET_LANGS.
translate_text(u) ==
    [task EXCEPT ![u] = [InTask EXCEPT !.pc = "req", !.li = 1]]

Outcomes ==
    IF variant = "realtime"
    THEN {"ok", "http", "exc"} \cup (IF budget.blanks THEN {"blank"} ELSE {})
    ELSE {"ok", "exc"}

\* The call of the backend for the current language returns ("ok": the
\* translation; "blank": an ok response whose translatedText is empty or
\* missing, which leaves the line "\n\n"; "http": a response that is not ok;
\* the last two in translate_realtime.py only)
\* or raises ("exc"), and update_text reads the buffer. The two are one step:
\* the return of the call changes nothing another thread can see.
InHandler(th) == th.msg.k \in {"exc", "tcl"}

task_response(t) ==
    /\ task[t].pc = "req"
    /\ \E r \in Outcomes :
        task' = [task EXCEPT ![t] =
                   update_text_read([@ EXCEPT !.msg = [u |-> t, k |-> r]],
                                    Targets[task[t].li])]
    /\ UNCHANGED <<variant, start_btn, stop_btn, stop_flag, q, captured, fed,
                   nfinal, loop, text_buffers, open_windows, sink, gui, budget, toplevels, window_op, transcript>>

\* update_text called from the except handler reads the buffer
task_update_read(t) ==
    /\ task[t].pc = "ut_read"
    /\ task' = [task EXCEPT ![t] = update_text_read(@, Targets[task[t].li])]
    /\ UNCHANGED <<variant, start_btn, stop_btn, stop_flag, q, captured, fed,
                   nfinal, loop, text_buffers, open_windows, sink, gui, budget, toplevels, window_op, transcript>>

task_update_store(t) ==
    /\ task[t].pc = "ut_write"
    /\ text_buffers' = [text_buffers EXCEPT ![Targets[task[t].li]] = update_text_store(task[t])]
    /\ task' = [task EXCEPT ![t] =
                   [@ EXCEPT !.pc = "ut_lookup", !.tmp = <<>>]]
    /\ UNCHANGED <<variant, start_btn, stop_btn, stop_flag, q, captured, fed,
                   nfinal, loop, open_windows, sink, gui, budget, toplevels, window_op, transcript>>

\* the for loop of _translate_task goes on to the next language, or ends
task_next(th) ==
    IF th.li < NTargets
    THEN [th EXCEPT !.pc = "req", !.li = @ + 1, !.msg = NoMsg, !.win = "none",
                    !.sawStop = FALSE]
    ELSE [th EXCEPT !.pc = "done", !.msg = NoMsg, !.win = "none", !.sawStop = FALSE]

\* update_text raised: inside try it is caught and reported by a second
\* update_text; inside the except handler it leaves the thread.
task_raise(th) ==
    IF InHandler(th)
    THEN [th EXCEPT !.pc = "died", !.win = "none"]
    ELSE [th EXCEPT !.pc = "ut_read", !.msg = [u |-> th.msg.u, k |-> "tcl"],
                    !.win = "none"]

task_update_lookup(t) ==
    /\ task[t].pc = "ut_lookup"
    /\ LET th == update_text_lookup(task[t], Targets[task[t].li])
       IN  task' = [task EXCEPT ![t] = IF th.pc = "return" THEN task_next(th) ELSE th]
    /\ UNCHANGED <<variant, start_btn, stop_btn, stop_flag, q, captured, fed,
                   nfinal, loop, text_buffers, open_windows, sink, gui, budget, toplevels, window_op, transcript>>

\* win.insert: a Tk call of its own, served by the event loop of the main
\* thread; on a destroyed widget it raises TclError
task_update_tk(t) ==
    /\ task[t].pc = "ut_tk"
    /\ EventLoopRuns
    /\ IF task[t].win = "live"
       THEN /\ sink' = [sink EXCEPT ![Targets[task[t].li]] = text_insert(@, task[t].msg)]
            /\ task' = [task EXCEPT ![t].pc = "ut_see"]
       ELSE /\ task' = [task EXCEPT ![t] = task_raise(@)]
            /\ UNCHANGED sink
    /\ UNCHANGED <<variant, start_btn, stop_btn, stop_flag, q, captured, fed,
                   nfinal, loop, text_buffers, open_windows, gui, budget, toplevels, window_op, transcript>>

\* win.see(tk.END): the next Tk call; update_text returns after it
task_update_see(t) ==
    /\ task[t].pc = "ut_see"
    /\ EventLoopRuns
    /\ task' = [task EXCEPT ![t] = IF @.win = "live" THEN task_next(@) ELSE task_raise(@)]
    /\ UNCHANGED <<variant, start_btn, stop_btn, stop_flag, q, captured, fed,
                   nfinal, loop, text_buffers, open_windows, sink, gui, budget, toplevels, window_op, transcript>>

translate_task_thread(t) ==
    \/ task_response(t)
    \/ task_update_read(t)
    \/ task_update_store(t)
    \/ task_update_lookup(t)
    \/ task_update_tk(t)
    \/ task_update_see(t)

_translate_task == \E t \in Utterances : translate_task_thread(t)

\* ---- recognition loop ----
\* `with sd.RawInputStream(...)`: the stream opens
loop_open(i) ==
    /\ loop[i].pc = "open"
    /\ loop' = [loop EXCEPT ![i].pc = "check"]
    /\ UNCHANGED <<variant, start_btn, stop_btn, stop_flag, q, captured, fed,
                   nfinal, task, text_buffers, open_windows, sink, gui, budget, toplevels, window_op, transcript>>

\* the while test, had it not looked at stop_flag
loop_check_ignores_stop(i) ==
    /\ loop[i].pc = "check"
    /\ loop' = [loop EXCEPT ![i] = [@ EXCEPT !.pc = "get", !.msg = NoMsg]]
    /\ UNCHANGED <<variant, start_btn, stop_btn, stop_flag, q, captured, fed,
                   nfinal, task, text_buffers, open_windows, sink, gui, budget,
                   toplevels, window_op, transcript>>

\* `while not stop_flag.is_set()`: leaving the loop leaves the with block,
\* which closes the stream
loop_check(i) ==
    /\ loop[i].pc = "check"
    /\ loop' = [loop EXCEPT ![i] =
                  [@ EXCEPT !.pc = IF stop_flag THEN "done" ELSE "get", !.msg = NoMsg]]
    /\ UNCHANGED <<variant, start_btn, stop_btn, stop_flag, q, captured, fed,
                   nfinal, task, text_buffers, open_windows, sink, gui, budget, toplevels, window_op, transcript>>

\* q.get(), had the loop waited for the translation threads before it
loop_get_after_tasks(i) ==
    /\ loop[i].pc = "get"
    /\ q # <<>>
    /\ \A t \in Utterances : ~Running(task[t])
    /\ loop' = [loop EXCEPT ![i] = [@ EXCEPT !.pc = "feed", !.data = Head(q)]]
    /\ q' = Tail(q)
    /\ UNCHANGED <<variant, start_btn, stop_btn, stop_flag, captured, fed,
                   nfinal, task, text_buffers, open_windows, sink, gui, budget,
                   toplevels, window_op, transcript>>

\* `data = q.get()` blocks on an empty queue
loop_get(i) ==
    /\ loop[i].pc = "get"
    /\ q # <<>>
    /\ loop' = [loop EXCEPT ![i] = [@ EXCEPT !.pc = "feed", !.data = Head(q)]]
    /\ q' = Tail(q)
    /\ UNCHANGED <<variant, start_btn, stop_btn, stop_flag, captured, fed,
                   nfinal, task, text_buffers, open_windows, sink, gui, budget, toplevels, window_op, transcript>>

\* loop_feed, had it not tested `if text:` after a final result
loop_feed_keeps_empty(i) ==
    /\ loop[i].pc = "feed"
    /\ fed' = IF loop[i].data > 0
              THEN Append(fed, [loop |-> i, frame |-> loop[i].data])
              ELSE fed
    /\ \/ \* final, text non-empty: update_text("zh", text)
          /\ nfinal < budget.finals
          /\ nfinal' = nfinal + 1
          /\ loop' = [loop EXCEPT ![i] =
                        [@ EXCEPT !.pc = "ut_read", !.data = 0,
                                  !.msg = [u |-> nfinal + 1, k |-> "src"]]]
       \/ \* final, text empty after strip()
          /\ loop' = [loop EXCEPT ![i] =
                        [@ EXCEPT !.pc = "ut_read", !.data = 0,
                                  !.msg = [u |-> 0, k |-> "empty"]]]
          /\ UNCHANGED nfinal
       \/ \* partial, text empty after strip() (translate_google.py):
          \* `if partial:` skips the body
          /\ variant = "google"
          /\ loop' = [loop EXCEPT ![i] =
                        [@ EXCEPT !.pc = "check", !.data = 0,
                                  !.msg = [u |-> 0, k |-> "nopartial"]]]
          /\ UNCHANGED nfinal
       \/ \* partial, text non-empty: update_text("zh", partial, transient=True)
          \* in translate_google.py; translate_realtime.py has no else branch
          /\ loop' = [loop EXCEPT ![i] =
                        IF variant = "google"
                        THEN [@ EXCEPT !.pc = "ut_lookup", !.data = 0,
                                       !.msg = [u |-> 0, k |-> "partial"]]
                        ELSE [@ EXCEPT !.pc = "check", !.data = 0]]
          /\ UNCHANGED nfinal
    /\ UNCHANGED <<variant, start_btn, stop_btn, stop_flag, q, captured,
                   task, text_buffers, open_windows, sink, gui, budget, toplevels, window_op, transcript>>

\* rec.AcceptWaveform(data) and what the loop does with the event. The
\* recognizer is a black box: any event can follow any frame.
loop_feed(i) ==
    /\ loop[i].pc = "feed"
    /\ fed' = IF loop[i].data > 0
              THEN Append(fed, [loop |-> i, frame |-> loop[i].data])
              ELSE fed
    /\ \/ \* final, text non-empty: update_text("zh", text)
          /\ nfinal < budget.finals
          /\ nfinal' = nfinal + 1
          /\ loop' = [loop EXCEPT ![i] =
                        [@ EXCEPT !.pc = "ut_read", !.data = 0,
                                  !.msg = [u |-> nfinal + 1, k |-> "src"]]]
       \/ \* final, text empty after strip(): `if text:` skips the body
          /\ loop' = [loop EXCEPT ![i] =
                        [@ EXCEPT !.pc = "check", !.data = 0,
                                  !.msg = [u |-> 0, k |-> "empty"]]]
          /\ UNCHANGED nfinal
       \/ \* partial, text empty after strip() (translate_google.py):
          \* `if partial:` skips the body
          /\ variant = "google"
          /\ loop' = [loop EXCEPT ![i] =
                        [@ EXCEPT !.pc = "check", !.data = 0,
                                  !.msg = [u |-> 0, k |-> "nopartial"]]]
          /\ UNCHANGED nfinal
       \/ \* partial, text non-empty: update_text("zh", partial, transient=True)
          \* in translate_google.py; translate_realtime.py has no else branch
          /\ loop' = [loop EXCEPT ![i] =
                        IF variant = "google"
                        THEN [@ EXCEPT !.pc = "ut_lookup", !.data = 0,
                                       !.msg = [u |-> 0, k |-> "partial"]]
                        ELSE [@ EXCEPT !.pc = "check", !.data = 0]]
          /\ UNCHANGED nfinal
    /\ UNCHANGED <<variant, start_btn, stop_btn, stop_flag, q, captured,
                   task, text_buffers, open_windows, sink, gui, budget, toplevels, window_op, transcript>>

loop_update_read(i) ==
    /\ loop[i].pc = "ut_read"
    /\ loop' = [loop EXCEPT ![i] = update_text_read(@, "zh")]
    /\ UNCHANGED <<variant, start_btn, stop_btn, stop_flag, q, captured, fed,
                   nfinal, task, text_buffers, open_windows, sink, gui, budget, toplevels, window_op, transcript>>

loop_update_store(i) ==
    /\ loop[i].pc = "ut_write"
    /\ text_buffers' = [text_buffers EXCEPT !["zh"] = update_text_store(loop[i])]
    /\ loop' = [loop EXCEPT ![i] = [@ EXCEPT !.pc = "ut_lookup", !.tmp = <<>>]]
    /\ UNCHANGED <<variant, start_btn, stop_btn, stop_flag, q, captured, fed,
                   nfinal, task, open_windows, sink, gui, budget, toplevels, window_op, transcript>>

\* update_text returned: after a final the loop calls translate_text(text)
loop_after_update(l) ==
    IF l.msg.k = "src" THEN translate_text(l.msg.u) ELSE task

loop_back(l) == [l EXCEPT !.pc = "check", !.msg = NoMsg, !.win = "none"]

loop_update_lookup(i) ==
    /\ loop[i].pc = "ut_lookup"
    /\ LET l == update_text_lookup(loop[i], "zh")
       IN  IF l.pc = "return"
           THEN /\ loop' = [loop EXCEPT ![i] = loop_back(l)]
                /\ task' = loop_after_update(l)
           ELSE /\ loop' = [loop EXCEPT ![i] = l]
                /\ UNCHANGED task
    /\ UNCHANGED <<variant, start_btn, stop_btn, stop_flag, q, captured, fed,
                   nfinal, text_buffers, open_windows, sink, gui, budget, toplevels, window_op, transcript>>

\* a TclError of a Tk call of update_text is not caught in listen_loop: the
\* thread ends, and the with block closes the stream
loop_raise(l) == [l EXCEPT !.pc = "died", !.msg = NoMsg, !.win = "none"]

\* `if transient: win.delete("end-3l", "end-1l")`, a Tk call of its own
loop_update_delete(i) ==
    /\ loop[i].pc = "ut_del"
    /\ EventLoopRuns
    /\ IF loop[i].win = "live"
       THEN /\ sink' = [sink EXCEPT !["zh"] = text_delete_last(@)]
            /\ loop' = [loop EXCEPT ![i].pc = "ut_tk"]
       ELSE /\ loop' = [loop EXCEPT ![i] = loop_raise(@)]
            /\ UNCHANGED sink
    /\ UNCHANGED task
    /\ UNCHANGED <<variant, start_btn, stop_btn, stop_flag, q, captured, fed,
                   nfinal, text_buffers, open_windows, gui, budget, toplevels, window_op, transcript>>

\* win.insert
loop_update_tk(i) ==
    /\ loop[i].pc = "ut_tk"
    /\ EventLoopRuns
    /\ IF loop[i].win = "live"
       THEN /\ sink' = [sink EXCEPT !["zh"] = text_insert(@, loop[i].msg)]
            /\ loop' = [loop EXCEPT ![i].pc = "ut_see"]
       ELSE /\ loop' = [loop EXCEPT ![i] = loop_raise(@)]
            /\ UNCHANGED sink
    /\ UNCHANGED task
    /\ UNCHANGED <<variant, start_btn, stop_btn, stop_flag, q, captured, fed,
                   nfinal, text_buffers, open_windows, gui, budget, toplevels, window_op, transcript>>

\* win.see(tk.END); update_text returns after it
loop_update_see(i) ==
    /\ loop[i].pc = "ut_see"
    /\ EventLoopRuns
    /\ IF loop[i].win = "live"
       THEN /\ loop' = [loop EXCEPT ![i] = loop_back(@)]
            /\ task' = loop_after_update(loop[i])
       ELSE /\ loop' = [loop EXCEPT ![i] = loop_raise(@)]
            /\ UNCHANGED task
    /\ UNCHANGED <<variant, start_btn, stop_btn, stop_flag, q, captured, fed,
                   nfinal, text_buffers, open_windows, sink, gui, budget, toplevels, window_op, transcript>>

listen_loop_thread(i) ==
    \/ loop_open(i)
    \/ loop_check(i)
    \/ loop_get(i)
    \/ loop_feed(i)
    \/ loop_update_read(i)
    \/ loop_update_store(i)
    \/ loop_update_lookup(i)
    \/ loop_update_delete(i)
    \/ loop_update_tk(i)
    \/ loop_update_see(i)

listen_loop == \E i \in Sessions : listen_loop_thread(i)

\* ---- popup windows ----
\* open_windows[lang_code]["window"].destroy(): the window is gone, its entry
\* is still in open_windows
window_destroy(lang) ==
    /\ toplevels' = [toplevels EXCEPT ![lang] = @ - 1]
    /\ sink' = [sink EXCEPT ![lang] = <<>>]
    /\ loop' = destroy_loops(lang)
    /\ task' = destroy_tasks(lang)

\* toggle_window, had it not looked for the language in open_windows
toggle_window_always_opens(lang) ==
    /\ MainIdle
    /\ window_op.opened < budget.opens
    /\ toplevels[lang] < 2
    /\ toplevels' = [toplevels EXCEPT ![lang] = @ + 1]
    /\ sink' = [sink EXCEPT ![lang] = text_buffers[lang]]
    /\ gui' = [state |-> "opening", lang |-> lang]
    /\ UNCHANGED <<variant, start_btn, stop_btn, stop_flag, q, captured, fed,
                   nfinal, text_buffers, budget, transcript, open_windows, loop,
                   task, window_op>>

\* toggle_window up to the backfill of the new text area, or, in its closing
\* branch, up to the destroy() of the window
toggle_window(lang) ==
    /\ MainIdle
    /\ IF open_windows[lang]
       THEN /\ window_destroy(lang)
            /\ window_op' = [window_op EXCEPT !.op = "toggled_off", !.lang = lang]
            /\ UNCHANGED <<gui, open_windows>>
       ELSE /\ window_op.opened < budget.opens
            /\ toplevels' = [toplevels EXCEPT ![lang] = @ + 1]
            /\ sink' = [sink EXCEPT ![lang] = text_buffers[lang]]
            /\ gui' = [state |-> "opening", lang |-> lang]
            /\ window_op' = [NoWindowOp EXCEPT !.opened = window_op.opened + 1]
            /\ UNCHANGED <<open_windows, loop, task>>
    /\ UNCHANGED <<variant, start_btn, stop_btn, stop_flag, q, captured, fed,
                   nfinal, text_buffers, budget, transcript>>

\* the rest of toggle_window: open_windows[lang_code] = {...}, log_message
toggle_window_register ==
    /\ gui.state = "opening"
    /\ open_windows' = [open_windows EXCEPT ![gui.lang] = TRUE]
    /\ gui' = [state |-> "idle", lang |-> "zh"]
    /\ UNCHANGED <<variant, start_btn, stop_btn, stop_flag, q, captured, fed,
                   nfinal, loop, task, text_buffers, sink, budget, toplevels,
                   window_op, transcript>>

\* close_window, had it dropped the text of the language with the window
close_window_forgets(lang) ==
    /\ EventLoopRuns
    /\ open_windows[lang]
    /\ window_destroy(lang)
    /\ window_op' = [window_op EXCEPT !.op = "closed", !.lang = lang]
    /\ text_buffers' = [text_buffers EXCEPT ![lang] = <<>>]
    /\ UNCHANGED <<variant, start_btn, stop_btn, stop_flag, q, captured, fed,
                   nfinal, gui, budget, transcript, open_windows>>

\* WM_DELETE_WINDOW of an open window, up to the destroy() of the window;
\* the grab of a file dialog or message box keeps the buttons of the main
\* window from being pressed, not the close button of a popup window
close_window(lang) ==
    /\ EventLoopRuns
    /\ open_windows[lang]
    /\ window_destroy(lang)
    /\ window_op' = [window_op EXCEPT !.op = "closed", !.lang = lang]
    /\ UNCHANGED <<variant, start_btn, stop_btn, stop_flag, q, captured, fed,
                   nfinal, text_buffers, gui, budget, transcript, open_windows>>

\* the rest of the closing branch of toggle_window and of close_window:
\* del open_windows[lang_code]
window_unregister(lang) ==
    /\ Closing(lang)
    /\ open_windows' = [open_windows EXCEPT ![lang] = FALSE]
    /\ UNCHANGED <<variant, start_btn, stop_btn, stop_flag, q, captured, fed,
                   nfinal, loop, task, text_buffers, sink, gui, budget,
                   toplevels, window_op, transcript>>

windows ==
    \/ \E lang \in Langs : toggle_window(lang)
    \/ toggle_window_register
    \/ \E lang \in Langs : close_window(lang)
    \/ \E lang \in Langs : window_unregister(lang)

\* ---- Save Transcript ----
\* The text save_transcript builds is a sequence of lines: a header line
\* ("🈶 Chinese Transcript:", "🌐 English Translation:", ...), written here as
\* a record whose kind is the language code, and the lines of the buffers.
Header(lang) == [u |-> 0, k |-> lang]

\* the order of the sections, had the target languages come first
save_order_targets_first == Targets \o <<"zh">>

\* "zh" first, then `for code, name in TARGET_LANGS.items()`
save_order == <<"zh">> \o Targets

\* str.strip(): white space goes from the two ends of the text, and with it
\* every record at an end that is white space only
strip(text) ==
    LET keep == {n \in 1..Len(text) : text[n].k # "blank"}
    IN  IF keep = {}
        THEN <<>>
        ELSE SubSeq(text, CHOOSE a \in keep : \A n \in keep : a <= n,
                          CHOOSE b \in keep : \A n \in keep : n <= b)

\* one element of `combined`: the header and text_buffers[code].strip()
save_section(lang) == <<Header(lang)>> \o strip(text_buffers[lang])

\* the language save_transcript reads after lang; "none" after the last
save_next(lang) ==
    LET n == CHOOSE k \in 1..Len(save_order) : save_order[k] = lang
    IN  IF n < Len(save_order) THEN save_order[n + 1] ELSE "none"

\* content = "\n".join(combined).strip(): the headers stay, so that
\* `if not content` tests a text that is never empty
save_join(combined) == strip(combined)

\* One read of save_transcript: text_buffers[lang] is read and its section
\* appended to `combined`. No lock is held between the reads, so the other
\* threads append between them; the main thread is not in an event loop.
\* After the last read: `if not content` shows the "No Content" box,
\* otherwise asksaveasfilename opens. Dialog and box are modal and run their
\* own event loop.
save_read(lang) ==
    LET combined == transcript.content \o save_section(lang)
        content == save_join(combined)
    IN  IF save_next(lang) # "none"
        THEN /\ transcript' = [transcript EXCEPT !.content = combined, !.box = "none"]
             /\ gui' = [state |-> "building", lang |-> save_next(lang)]
        ELSE IF content = <<>>
        THEN /\ transcript' = [transcript EXCEPT !.content = <<>>, !.box = "No Content"]
             /\ gui' = [state |-> "box", lang |-> "zh"]
        ELSE /\ transcript' = [transcript EXCEPT !.content = content, !.box = "none"]
             /\ gui' = [state |-> "saving", lang |-> "zh"]

\* the Save Transcript button: save_transcript starts with text_buffers["zh"]
save_transcript ==
    /\ MainIdle
    /\ budget.saves
    /\ save_read(save_order[1])
    /\ UNCHANGED <<variant, start_btn, stop_btn, stop_flag, q, captured, fed,
                   nfinal, loop, task, text_buffers, open_windows, sink, budget,
                   toplevels, window_op>>

\* save_transcript goes on to the next language
save_transcript_read ==
    /\ gui.state = "building"
    /\ save_read(gui.lang)
    /\ UNCHANGED <<variant, start_btn, stop_btn, stop_flag, q, captured, fed,
                   nfinal, loop, task, text_buffers, open_windows, sink, budget,
                   toplevels, window_op>>

\* the dialog returns: with a path the content is written and the "Saved"
\* box shown, without one (Cancel) save_transcript returns
save_transcript_write ==
    /\ gui.state = "saving"
    /\ ~InClose
    /\ \/ /\ transcript' = [content |-> <<>>, box |-> "Saved", file |-> transcript.content]
          /\ gui' = [state |-> "box", lang |-> "zh"]
       \/ /\ transcript' = NoTranscript
          /\ gui' = [state |-> "idle", lang |-> "zh"]
    /\ UNCHANGED <<variant, start_btn, stop_btn, stop_flag, q, captured, fed,
                   nfinal, loop, task, text_buffers, open_windows, sink, budget,
                   toplevels, window_op>>

\* the message box is dismissed and save_transcript returns
save_transcript_return ==
    /\ gui.state = "box"
    /\ ~InClose
    /\ gui' = [state |-> "idle", lang |-> "zh"]
    /\ transcript' = NoTranscript
    /\ UNCHANGED <<variant, start_btn, stop_btn, stop_flag, q, captured, fed,
                   nfinal, loop, task, text_buffers, open_windows, sink, budget,
                   toplevels, window_op>>

save ==
    \/ save_transcript
    \/ save_transcript_read
    \/ save_transcript_write
    \/ save_transcript_return

Next ==
    \/ audio_callback
    \/ recognize_and_translate
    \/ stop_listening
    \/ listen_loop
    \/ _translate_task
    \/ windows
    \/ save

Spec == Init /\ [][Next]_vars

InitLive == Init /\ budget \in LiveBudgets

InitEndless == Init /\ budget \in EndlessBudgets

\* The operating system schedules every translation thread, and the main
\* thread runs a handler to its end. A backend call of translate_realtime.py
\* returns or raises in the end (requests.post has timeout=10); the call of
\* translate_google.py has no timeout, and nothing is assumed of it.
FairSpec ==
    /\ InitLive
    /\ [][Next]_vars
    /\ \A t \in Utterances :
          WF_vars(translate_task_thread(t) /\ (variant = "realtime" \/ task[t].pc # "req"))
    /\ WF_vars(toggle_window_register)
    /\ \A lang \in Langs : WF_vars(window_unregister(lang))
    /\ WF_vars(save_transcript_read)

\* The operating system schedules every listen_loop thread; the main thread
\* runs a handler to its end and is then back in the event loop, where the
\* Tk calls of the other threads are served in turn. Nothing is assumed of
\* the translation threads and of the backend. The audio source delivers
\* MaxFrames frames at most.
LoopFairSpec ==
    /\ InitLive
    /\ [][Next]_vars
    /\ \A i \in Sessions : SF_vars(listen_loop_thread(i))
    /\ WF_vars(toggle_window_register)
    /\ \A lang \in Langs : WF_vars(window_unregister(lang))
    /\ WF_vars(save_transcript_read)

\* The same, with an audio source that keeps delivering frames while a
\* stream is open.
StreamFairSpec ==
    /\ InitEndless
    /\ [][Next]_vars
    /\ WF_vars(audio_callback)
    /\ \A i \in Sessions : SF_vars(listen_loop_thread(i))
    /\ WF_vars(toggle_window_register)
    /\ \A lang \in Langs : WF_vars(window_unregister(lang))
    /\ WF_vars(save_transcript_read)

\* ---- notions used by the properties ----
\* the request of utterance t for lang is with the backend
Pending(t, lang) ==
    /\ task[t].pc = "req"
    /\ Targets[task[t].li] = lang

RecordsOf(lang, u) == {n \in 1..Len(text_buffers[lang]) : text_buffers[lang][n].u = u}

HasRecord(lang, u) == RecordsOf(lang, u) # {}

\* the frames loop i has passed to the recognizer
FedBy(i) == {n \in 1..Len(fed) : fed[n].loop = i}

\* no thread is between appending a record to the buffer of lang and
\* forwarding it to the window of lang
NoUpdateInFlight(lang) ==
    /\ \A t \in Utterances :
        (task[t].pc = "ut_lookup" \/ InTkCalls(task[t])) => Targets[task[t].li] # lang
    /\ \A i \in Sessions :
        (loop[i].pc = "ut_lookup" \/ InTkCalls(loop[i])) => lang # "zh"

\* utterance u has been handed over: the loop that finalized it is through
\* with it, and its translation thread, if any, has ended
Settled(u) ==
    /\ u <= nfinal
    /\ \A i \in Sessions : loop[i].msg.u # u
    /\ task[u].pc \in {"none", "done", "died"}

FinalSeq == [n \in 1..nfinal |-> [u |-> n, k |-> "src"]]

\* C1: in the buffer of every target language the successfully translated
\* records stand in the order in which their utterances were finalized.
TranslationsInOrder ==
    \A lang \in TargetSet :
        \A m, n \in 1..Len(text_buffers[lang]) :
            (m < n /\ text_buffers[lang][m].k = "ok" /\ text_buffers[lang][n].k = "ok")
                => text_buffers[lang][m].u < text_buffers[lang][n].u

\* C2: the buffer of every target language never holds two records of one
\* utterance, and holds exactly one once the utterance has been handed over
\* and its translation thread has ended.
OneRecordPerRequest ==
    \A u \in Utterances : \A lang \in TargetSet :
        /\ Cardinality(RecordsOf(lang, u)) <= 1
        /\ Settled(u) => Cardinality(RecordsOf(lang, u)) = 1

\* C3: a failed translation for one language does not keep the other
\* languages from their record: a translation thread that ended while
\* handling the failure of one language has left a record of its utterance
\* in the buffer of every target language.
FailureContained ==
    \A t \in Utterances :
        (task[t].pc = "died" /\ task[t].msg.k = "exc")
            => \A lang \in TargetSet : HasRecord(lang, t)

\* C4: each target language's request runs on its own unit of work: while
\* the request of one language is with the backend, no other language of the
\* same utterance is still waiting for its request to be issued.
OwnUnitOfWork ==
    \A t \in Utterances : \A i, j \in 1..NTargets :
        Pending(t, Targets[i]) => j <= task[t].li

\* C5: once stop_listening has returned, a loop that was running passes no
\* further frame to the recognizer.
NoFeedAfterStop ==
    [][\A i \in Sessions : loop[i].stopped => FedBy(i)' = FedBy(i)]_vars

\* C6: a translation request that is in flight is not cancelled, by
\* stop_listening or anything else: provided the backend call does not stay
\* unanswered for ever, its record (the translation or an error line) is in
\* the end appended to the buffer of its language.
StopDoesNotCancel ==
    \A t \in Utterances : \A lang \in TargetSet :
        ([]<>~Pending(t, lang)) => (Pending(t, lang) ~> HasRecord(lang, t))

\* C6, witness: stop_listening returned while the request was in flight, and
\* the record has been appended since.
AppendedAfterStop ==
    \E t \in Utterances :
        /\ stop_flag
        /\ task[t].sawStop
        /\ task[t].pc = "ut_lookup"
        /\ HasRecord(Targets[task[t].li], t)

\* C7: the buffers the translation threads append to are append-only: each
\* step leaves the content of the buffer of every target language a prefix
\* of its new content.
BuffersAppendOnly ==
    [][\A lang \in TargetSet : IsPrefix(text_buffers[lang], text_buffers'[lang])]_vars

\* C8: no partial line is in any buffer, and the source-language buffer is
\* the sequence of the finalized utterances in the order of their final
\* events: a prefix of it while an append is under way, all of it otherwise.
SourceBufferIsFinals ==
    /\ \A lang \in Langs : \A n \in 1..Len(text_buffers[lang]) :
        text_buffers[lang][n].k # "partial"
    /\ IsPrefix(text_buffers["zh"], FinalSeq)
    /\ (\A i \in Sessions : loop[i].pc \notin {"ut_read", "ut_write"})
        => text_buffers["zh"] = FinalSeq

\* C9: the window of the source language shows finalized records followed by
\* at most one partial line: a partial line is never followed by another line.
OnePartialAtEnd ==
    open_windows["zh"] =>
        \A n \in 1..Len(sink["zh"]) :
            sink["zh"][n].k = "partial" => n = Len(sink["zh"])

\* C10: while a window is attached and no append is under way for its
\* language, it shows exactly the content of the buffer (translate_realtime.py,
\* which has no partial lines).
SinkMirrorsBuffer ==
    \A lang \in Langs :
        (variant = "realtime" /\ open_windows[lang] /\ NoUpdateInFlight(lang))
            => sink[lang] = text_buffers[lang]

\* C11: opening and closing popup windows never changes a buffer: every step
\* that creates, registers or destroys a window leaves the content of every
\* buffer as it was, so a closed window leaves the full history behind.
WindowsKeepBuffers ==
    [][(open_windows' # open_windows \/ toplevels' # toplevels)
          => text_buffers' = text_buffers]_vars

\* C11, witness: a window was opened and closed again, and the buffer of its
\* language holds a record.
HistoryKeptAfterClose ==
    /\ window_op.op = "closed"
    /\ ~open_windows[window_op.lang]
    /\ text_buffers[window_op.lang] # <<>>

\* C12: Save Transcript with every buffer empty writes no file: a file that
\* has been written holds at least one line of a buffer, not headers alone.
ExportNeedsContent ==
    \/ transcript.file = <<>>
    \/ \E n \in 1..Len(transcript.file) : transcript.file[n].k \notin Langs

\* the header lines of a transcript, in the order they stand in it
HeaderLines(content) == SelectSeq(content, LAMBDA line : line.k \in Langs)

\* the lines of a transcript between the header of lang and the next header
SectionBody(content, lang) ==
    LET h == CHOOSE n \in 1..Len(content) : content[n] = Header(lang)
        e == CHOOSE m \in (h + 1)..(Len(content) + 1) :
                /\ m <= Len(content) => content[m].k \in Langs
                /\ \A j \in (h + 1)..(m - 1) : content[j].k \notin Langs
    IN  SubSeq(content, h + 1, e - 1)

\* a step of save_transcript that reads a buffer
SaveReads ==
    /\ gui.state \in {"idle", "building"}
    /\ transcript'.content # transcript.content

\* the language whose turn it is by the headers the transcript holds so far
SectionLang ==
    LET n == Len(HeaderLines(transcript.content))
    IN  IF n = 0 THEN "zh" ELSE Targets[n]

\* what the step has added to the transcript
NewSection ==
    SubSeq(transcript'.content, Len(transcript.content) + 1, Len(transcript'.content))

\* body is text less the white-space-only records at its two ends
StrippedOf(body, text) ==
    \E a \in 1..(Len(text) + 1) : \E b \in 0..Len(text) :
        /\ body = SubSeq(text, a, b)
        /\ \A n \in 1..Len(text) : (n < a \/ n > b) => text[n].k = "blank"
        /\ body # <<>> => (body[1].k # "blank" /\ body[Len(body)].k # "blank")

\* The steps of save_transcript: each read adds the section of the language
\* whose turn it is, its header and a body that is the buffer of the language
\* (exactly, or stripped) with no partial line; the transcript the dialog
\* opens on has the source language first and the target languages after it
\* in the order of TARGET_LANGS; the file written is that transcript; and
\* no step of save_transcript changes a buffer or a window.
ExportStep(exact) ==
    /\ SaveReads =>
         /\ IsPrefix(transcript.content, transcript'.content)
         /\ NewSection # <<>>
         /\ Head(NewSection) = Header(SectionLang)
         /\ IF exact
            THEN Tail(NewSection) = text_buffers[SectionLang]
            ELSE StrippedOf(Tail(NewSection), text_buffers[SectionLang])
         /\ \A n \in 1..Len(NewSection) : NewSection[n].k # "partial"
    /\ (gui.state # "saving" /\ gui'.state = "saving") =>
         HeaderLines(transcript'.content)
            = [n \in 1..(NTargets + 1) |-> Header(IF n = 1 THEN "zh" ELSE Targets[n - 1])]
    /\ (gui.state = "saving" /\ gui'.state # "saving") =>
         transcript'.file \in {transcript.file, transcript.content}
    /\ (transcript' # transcript \/ (gui.state \in {"building", "saving", "box"} /\ gui' # gui)) =>
         UNCHANGED <<text_buffers, open_windows, sink, toplevels>>

\* C13: the transcript has one section per language, the source language
\* first and the target languages after it in configured order; the body of
\* each section is exactly the content of the buffer of its language, with
\* no partial line; and saving changes no buffer and no window.
ExportSections == [][ExportStep(TRUE)]_vars

\* C13, as the code has it: the body of each section is the content of the
\* buffer of its language at the moment save_transcript reads it, less the
\* records at its two ends that are white space only (strip()); the rest as
\* above.
ExportSectionsStripped == [][ExportStep(FALSE)]_vars

\* C13, witness: a transcript with the text of an utterance in it has been
\* written to the file, with no record of a language whose buffer holds an
\* empty translation and nothing else.
ExportedStripped ==
    /\ transcript.box = "Saved"
    /\ \E n \in 1..Len(transcript.file) : transcript.file[n].k = "src"
    /\ \A n \in 1..Len(transcript.file) : transcript.file[n].k # "blank"
    /\ \E lang \in TargetSet :
          /\ text_buffers[lang] # <<>>
          /\ \A n \in 1..Len(text_buffers[lang]) : text_buffers[lang][n].k = "blank"

\* C14: at most one listen_loop thread at a time takes frames from the queue
\* and passes them to the recognizer, whatever the clicks on Start and Stop.
OneLoopAtATime ==
    Cardinality({i \in Sessions : loop[i].pc \in {"get", "feed"}}) <= 1

\* the loop is in q.get() and the queue is empty
Starved(i) == loop[i].pc = "get" /\ q = <<>>

\* C15: the recognition loop waits for frames and for nothing else, least of
\* all for a translation: even if no translation request is ever answered, a
\* running loop always comes to wait in q.get() on an empty queue, or ends.
LoopWaitsForFramesOnly ==
    \A i \in Sessions : Running(loop[i]) ~> (Starved(i) \/ ~Running(loop[i]))

\* C15, witness: the loop has taken the next frame from the queue while a
\* translation request of an utterance it dispatched is with the backend.
FedWhileTranslating ==
    \E i \in Sessions : \E t \in Utterances :
        /\ loop[i].pc = "feed"
        /\ task[t].pc = "req"

\* C16: after Stop, with Start not pressed again and an audio source that
\* keeps delivering frames while a stream is open, every loop that was
\* running ends in the end, and with it its audio stream is closed.
LoopExitsAfterStop ==
    \A i \in Sessions :
        (loop[i].stopped /\ stop_flag)
            ~> ((~Running(loop[i]) /\ ~StreamOpen(loop[i])) \/ ~stop_flag)

\* C16, witness: Start, Stop, Start, Stop left two loops running with the
\* flag set, and both have left the with block.
StoppedLoopDone ==
    /\ stop_flag
    /\ \E i, j \in Sessions :
          /\ i # j
          /\ loop[i].stopped /\ loop[i].pc = "done"
          /\ loop[j].stopped /\ loop[j].pc = "done"
          /\ \E n \in 1..Len(fed) : fed[n].loop = j

\* C17: the window button of a language toggles: at no time does a language
\* have more than one popup window; a window is created only for a language
\* with none registered, and is the one registered next; a step that creates
\* or destroys a window of a language with a registered one destroys that
\* one, and its entry is dropped before any other window is created or
\* destroyed; with the main thread back in mainloop every window that
\* exists is registered; and a step that changes the windows of one language
\* leaves the windows of every other language as they were.
ToggleSemantics ==
    [][/\ \A lang \in Langs :
            /\ toplevels'[lang] <= 1
            /\ toplevels'[lang] > toplevels[lang] => ~open_windows[lang]
            /\ (~open_windows[lang] /\ open_windows'[lang]) => toplevels'[lang] = 1
            /\ (open_windows[lang] /\ toplevels'[lang] # toplevels[lang])
                  => toplevels'[lang] = 0
            /\ (open_windows[lang] /\ ~open_windows'[lang])
                  => (toplevels[lang] = 0 /\ toplevels'[lang] = 0)
            /\ Closing(lang) => toplevels' = toplevels
            /\ (MainIdle' /\ toplevels'[lang] = 1) => open_windows'[lang]
       /\ \A a, b \in Langs :
            (a # b /\ (open_windows'[a] # open_windows[a] \/ toplevels'[a] # toplevels[a]))
                => (open_windows'[b] = open_windows[b] /\ toplevels'[b] = toplevels[b])]_vars

\* C17, witness: the button was pressed for a language whose window was open,
\* and the language is left with no window, while the window of another
\* language is still open.
ToggledOff ==
    /\ window_op.op = "toggled_off"
    /\ ~open_windows[window_op.lang]
    /\ toplevels[window_op.lang] = 0
    /\ \E other \in Langs \ {window_op.lang} :
          open_windows[other] /\ toplevels[other] = 1

\* C18: the text of an utterance is in the buffer of the source language
\* before its translations are dispatched: every record in the buffer of a
\* target language is of an utterance that has a record in the buffer of the
\* source language, and no target buffer is longer than the source buffer.
SourceBeforeTranslations ==
    \A lang \in TargetSet :
        /\ \A n \in 1..Len(text_buffers[lang]) :
              \E m \in 1..Len(text_buffers["zh"]) :
                  text_buffers["zh"][m].u = text_buffers[lang][n].u
        /\ Len(text_buffers[lang]) <= Len(text_buffers["zh"])

\* C19: a final result with empty text, and a partial result with empty text,
\* change nothing: the loop goes straight back to its while test, and no
\* buffer, no window and no translation thread is touched.
EmptyEventsChangeNothing ==
    [][\A i \in Sessions :
          (loop[i].pc = "feed" /\ loop'[i].msg.k \in {"empty", "nopartial"})
              => /\ loop'[i].pc = "check"
                 /\ UNCHANGED <<text_buffers, sink, open_windows, task, nfinal>>]_vars

\* C19, witness: the recognizer has returned a final result with empty text
\* for the frame the loop passed to it.
EmptyFinalSeen ==
    \E i \in Sessions :
        /\ loop[i].pc = "check"
        /\ loop[i].msg.k = "empty"
        /\ FedBy(i) # {}

\* C20: the frames reach the recognizer in the order of their capture, each
\* at most once.
FedInCaptureOrder ==
    \A m, n \in 1..Len(fed) : m < n => fed[m].frame < fed[n].frame
====
